---- MODULE Spec2Model ----
(***************************************************************************)
(* Model of greaseweazle/tools/write.py: write_from_image and main.        *)
(*                                                                         *)
(* The device (usb), the image and its tracks are collaborators: every     *)
(* call to them is one step, and what they return is chosen from bounded   *)
(* sets.  The floats of the rate converter (lines 73-81) are IEEE 754       *)
(* doubles, computed bit for bit; drive_ticks and the other quotients of   *)
(* small integers are kept as exact rationals [num, den].                  *)
(***************************************************************************)
EXTENDS Integers, Sequences, FiniteSets, TLC

VARIABLES
    args,               \* the parsed command line (main, lines 124-144)
    pc,                 \* position in write_from_image / main
    exc,                \* the exception being raised, "none" if none
    drive_ticks,        \* line 48
    verified_count,     \* line 51
    not_verified_count, \* line 51
    cyl,                \* line 53
    side,               \* line 54
    track,              \* line 56
    flux,               \* line 69
    factor,             \* line 73
    rem,                \* line 76
    flux_list,          \* line 77
    retry,              \* line 87
    verified,           \* line 86
    v_flux,             \* line 98
    issued,             \* history: device calls issued so far in the job, by operation
    track_ops,          \* history: device calls issued for the current (cyl, side)
    last_op,            \* history: the most recent device call and its arguments
    touched,            \* history: position of the most recent seek / write / erase
    completed,          \* history: tracks whose check at line 105 passed
    head,               \* history: the cylinder and side of the most recent seek
    got_tracks          \* history: number of get_track calls that returned a track

vars == <<args, pc, exc, drive_ticks, verified_count, not_verified_count, cyl,
          side, track, flux, factor, rem, flux_list, retry, verified, v_flux,
          issued, track_ops, last_op, touched, completed, head, got_tracks>>

-----------------------------------------------------------------------------
(* Bounds of the model *)

\* cylinders are 0..MaxCyl
MaxCyl == 1
\* index-to-index times returned by a capture are 0..MaxIndex
MaxIndex == 2
\* rate-converter inputs: lists of 1..MaxLen intervals, each 1..MaxInterval
MaxLen == 3
MaxInterval == 3
\* rate-converter factors: num/den with num in 1..MaxNum, den in 1..MaxDen
MaxNum == 5
MaxDen == 4

(* Program constants *)

\* range(3), line 87
NrAttempts == 3
\* usb.read_track(2), line 47
CalibrationRevs == 2

-----------------------------------------------------------------------------
(* Values *)

None == [type |-> "None"]

\* A quotient of integers, kept exact: num / den with den > 0, in lowest terms.
RECURSIVE GCD(_, _)
GCD(a, b) == IF b = 0 THEN a ELSE GCD(b, a % b)

Abs(n) == IF n < 0 THEN -n ELSE n

Rat(n, d) ==
    LET g == GCD(Abs(n), d)
    IN  [num |-> n \div g, den |-> d \div g]

RatMul(a, b) == Rat(a.num * b.num, a.den * b.den)
\* a / b for b > 0; the caller raises ZeroDivisionError when b is zero
RatDiv(a, b) == Rat(a.num * b.den, a.den * b.num)
RatInt(n) == Rat(n, 1)

\* A Python float (IEEE 754 double), kept exactly: a sign and a magnitude,
\* the magnitude in units of 2^-56 as five limbs of base 2^14, mag[1] the
\* integer part and mag[2..5] the 56 fraction bits.  Zero and every double
\* of magnitude in [2^-4, 2^10) is such a number, and so is every sum,
\* difference and integer multiple of them below 2^10 once rounded to 53
\* significant bits.
\* The operators bind their arguments to values first, as in
\* CHOOSE r \in { body : v \in {argument} } : TRUE, which is body with v the
\* argument: an argument is then evaluated once, however often body uses it.
LimbBase == 2^14

\* carries (or borrows) taken from limb k up to the integer part
RECURSIVE Carry(_, _, _)
Carry(mag, k, carry) ==
    CHOOSE r \in
      { IF k = 1 THEN [m EXCEPT ![1] = m[1] + c]
        ELSE Carry([m EXCEPT ![k] = (m[k] + c) % LimbBase], k - 1,
                   (m[k] + c) \div LimbBase) :
        m \in {mag}, c \in {carry} } : TRUE

MagInt(n) == <<n, 0, 0, 0, 0>>
MagAdd(x, y) ==
    CHOOSE r \in
      { Carry(<<a[1] + b[1], a[2] + b[2], a[3] + b[3], a[4] + b[4],
                a[5] + b[5]>>, 5, 0) :
        a \in {x}, b \in {y} } : TRUE
\* x - y for x >= y
MagSub(x, y) ==
    CHOOSE r \in
      { Carry(<<a[1] - b[1], a[2] - b[2], a[3] - b[3], a[4] - b[4],
                a[5] - b[5]>>, 5, 0) :
        a \in {x}, b \in {y} } : TRUE
MagMulInt(n, y) ==
    CHOOSE r \in
      { Carry(<<x * a[1], x * a[2], x * a[3], x * a[4], x * a[5]>>, 5, 0) :
        x \in {n}, a \in {y} } : TRUE
MagLess(x, y) ==
    \E a \in {x}, b \in {y} :
       \E k \in 1..5 : a[k] < b[k] /\ \A j \in 1..(k - 1) : a[j] = b[j]

RECURSIVE Log2(_)
Log2(n) == IF n <= 1 THEN 0 ELSE 1 + Log2(n \div 2)

\* the number of low fraction bits a double of this magnitude cannot hold:
\* it has 53 significant bits
DropBits(m) ==
    IF m[1] >= 1 THEN 4 + Log2(m[1])
    ELSE IF m[2] >= 2^13 THEN 3
    ELSE IF m[2] >= 2^12 THEN 2
    ELSE IF m[2] >= 2^11 THEN 1
    ELSE 0

\* the magnitude mag + s units rounded to a double, to nearest and ties to
\* even; sticky tells s: 0 for s = 0, 1 for 0 < s < 1/2, 2 for s = 1/2,
\* 3 for 1/2 < s < 1
MagRound(mag, sticky) ==
    CHOOSE r \in
      { LET low == m[5] % P
            odd == (m[5] \div P) % 2 = 1
            up == IF P = 1
                  THEN s = 3 \/ (s = 2 /\ odd)
                  ELSE \/ 2 * low > P
                       \/ 2 * low = P /\ (s > 0 \/ odd)
        IN  Carry([m EXCEPT ![5] = m[5] - low + (IF up THEN P ELSE 0)], 5, 0) :
        m \in {mag}, s \in {sticky}, P \in {2^DropBits(mag)} } : TRUE

Dbl(neg, mag) ==
    CHOOSE r \in { [neg |-> neg /\ m # MagInt(0), mag |-> m] : m \in {mag} } :
      TRUE
DblInt(n) == Dbl(n < 0, MagInt(Abs(n)))
DblPositive(a) == ~a.neg /\ a.mag # MagInt(0)

\* float division: the double nearest to num / den, for integers num >= 0
\* and den > 0
DblDiv(num, den) ==
    CHOOSE r \in
      { LET r1 == n % d
            r2 == (r1 * LimbBase) % d
            r3 == (r2 * LimbBase) % d
            r4 == (r3 * LimbBase) % d
            r5 == (r4 * LimbBase) % d
            m == <<n \div d, (r1 * LimbBase) \div d, (r2 * LimbBase) \div d,
                   (r3 * LimbBase) \div d, (r4 * LimbBase) \div d>>
            sticky == IF r5 = 0 THEN 0
                      ELSE IF 2 * r5 < d THEN 1
                      ELSE IF 2 * r5 = d THEN 2 ELSE 3
        IN  Dbl(FALSE, MagRound(m, sticky)) :
        n \in {num}, d \in {den} } : TRUE

\* n * y for a Python int n >= 0 and a float y
DblMulInt(n, y) ==
    CHOOSE r \in
      { Dbl(a.neg, MagRound(MagMulInt(x, a.mag), 0)) :
        x \in {n}, a \in {y} } : TRUE

\* x + y for floats
DblAdd(x, y) ==
    CHOOSE r \in
      { IF a.neg = b.neg THEN Dbl(a.neg, MagRound(MagAdd(a.mag, b.mag), 0))
        ELSE IF MagLess(a.mag, b.mag)
             THEN Dbl(b.neg, MagRound(MagSub(b.mag, a.mag), 0))
             ELSE Dbl(a.neg, MagRound(MagSub(a.mag, b.mag), 0)) :
        a \in {x}, b \in {y} } : TRUE

\* x - y for floats
DblSub(x, y) ==
    CHOOSE r \in { DblAdd(x, Dbl(~b.neg, b.mag)) : b \in {y} } : TRUE

\* Python 3 round() of a float: the nearest integer, ties to the even one
PyRound(x) ==
    CHOOSE r \in
      { LET q == y.mag[1]
            frac == <<0, y.mag[2], y.mag[3], y.mag[4], y.mag[5]>>
            half == <<0, 2^13, 0, 0, 0>>
            up == MagLess(half, frac) \/ (frac = half /\ q % 2 = 1)
            n == IF up THEN q + 1 ELSE q
        IN  IF y.neg THEN -n ELSE n :
        y \in {x} } : TRUE

RECURSIVE Sum(_)
Sum(s) == IF s = <<>> THEN 0 ELSE Head(s) + Sum(Tail(s))

Prefix(s, k) == SubSeq(s, 1, k)

-----------------------------------------------------------------------------
(* The collaborators: what the command line, the image and the device give *)

\* main, lines 128-144: nr_sides is 1 (--single-sided) or 2
Args ==
    [scyl : 0..MaxCyl, ecyl : 0..MaxCyl, nr_sides : {1, 2},
     erase_empty : BOOLEAN, double_step : BOOLEAN, no_verify : BOOLEAN]

\* A capture as write.py reads it: the intervals, the index times, the flag.
Capture(list, index_list, terminate_at_index) ==
    [list |-> list, index_list |-> index_list,
     terminate_at_index |-> terminate_at_index]

\* flux.mean_index_time (lines 99): the mean of the capture's index times
mean_index_time(f) == Rat(Sum(f.index_list), Len(f.index_list))

\* A track of the image: its write-out capture, its verifier ("undefined":
\* the attribute is missing, "None", or "verifier") and its splice.
Track(f, verify, splice) == [flux |-> f, verify |-> verify, splice |-> splice]

\* What image.get_track (line 56) can return besides None.
Tracks ==
    { Track(Capture(<<1>>, <<1>>, TRUE), "undefined", 0),
      Track(Capture(<<2, 1>>, <<2>>, FALSE), "None", 1),
      Track(Capture(<<1, 2>>, <<1, 3>>, TRUE), "verifier", 0),
      Track(Capture(<<3>>, <<2>>, FALSE), "verifier", 1),
      Track(Capture(<<1>>, <<0>>, TRUE), "verifier", 0) }

\* The index times of a calibration capture, usb.read_track(2) at line 47.
\* A capture with fewer than two index times makes line 48 raise IndexError.
CalibrationIndexLists ==
    { <<>> } \cup { <<a, b>> : a \in 0..MaxIndex, b \in 0..MaxIndex }

\* The index times of a read-back capture of revs revolutions (line 98).
ReadbackIndexLists(revs) ==
    IF revs = 1 THEN { <<0>>, <<1>> } ELSE { <<0, 0>>, <<1, 3>>, <<1, 1>> }

NoOps == [seek |-> 0, read_track |-> 0, write_track |-> 0, erase_track |-> 0]

Count(ops, op) == [ops EXCEPT ![op] = @ + 1]

-----------------------------------------------------------------------------
(* Control flow helpers *)

\* Raise with a transport error caught where it happens: the job stays at
\* the failing call and issues it again
Raise_RetryCmdError(e) ==
    /\ exc' = e
    /\ pc' = IF e = "CmdError" THEN pc ELSE "raised"

\* An exception leaves write_from_image: nothing after the raising line runs.
Raise(e) ==
    /\ exc' = e
    /\ pc' = "raised"

\* LoopNext with the loops nested the other way round: sides outside,
\* cylinders inside
LoopNext_SidesOutside(c, s) ==
    IF c + 1 <= args.ecyl
    THEN [cyl |-> c + 1, side |-> s, pc |-> "get_track"]
    ELSE IF s + 1 < args.nr_sides
         THEN [cyl |-> args.scyl, side |-> s + 1, pc |-> "get_track"]
         ELSE [cyl |-> c + 1, side |-> 0, pc |-> "summary"]

\* The two for loops, lines 53-54: the position after (c, s), or the end.
LoopNext(c, s) ==
    IF s + 1 < args.nr_sides
    THEN [cyl |-> c, side |-> s + 1, pc |-> "get_track"]
    ELSE IF c + 1 <= args.ecyl
         THEN [cyl |-> c + 1, side |-> 0, pc |-> "get_track"]
         ELSE [cyl |-> c + 1, side |-> 0, pc |-> "summary"]

\* continue / end of the loop body: move to the next position.  The values of
\* the per-track locals are dead from here on (each is assigned before it is
\* read again), so they are cleared.
Continue ==
    LET n == LoopNext(cyl, side)
    IN  /\ cyl' = n.cyl
        /\ side' = n.side
        /\ pc' = n.pc
        /\ track' = None
        /\ flux' = None
        /\ factor' = None
        /\ rem' = None
        /\ flux_list' = <<>>
        /\ retry' = 0
        /\ verified' = FALSE
        /\ v_flux' = None
        /\ track_ops' = NoOps

-----------------------------------------------------------------------------
(* write_from_image *)

Init ==
    /\ args \in Args
    /\ pc = "calibrate"
    /\ exc = "none"
    /\ drive_ticks = None
    /\ verified_count = 0
    /\ not_verified_count = 0
    /\ cyl = 0
    /\ side = 0
    /\ track = None
    /\ flux = None
    /\ factor = None
    /\ rem = None
    /\ flux_list = <<>>
    /\ retry = 0
    /\ verified = FALSE
    /\ v_flux = None
    /\ issued = NoOps
    /\ track_ops = NoOps
    /\ last_op = None
    /\ touched = <<>>
    /\ head = None
    /\ completed = 0
    /\ got_tracks = 0

\* line 48: the mean of the first two index times
CalibratedTicks(index_list) == Rat(index_list[1] + index_list[2], 2)

\* lines 47-53: the calibration capture, then the counters and the loop entry
Calibrate ==
    /\ pc = "calibrate"
    /\ issued' = Count(issued, "read_track")
    /\ last_op' = [op |-> "read_track", revs |-> CalibrationRevs]
    /\ \/ /\ Raise("CmdError")
          /\ UNCHANGED <<drive_ticks, cyl, side>>
       \/ \E index_list \in CalibrationIndexLists :
            IF Len(index_list) < 2
            THEN /\ Raise("IndexError")
                 /\ UNCHANGED <<drive_ticks, cyl, side>>
            ELSE /\ drive_ticks' = CalibratedTicks(index_list)
                 /\ exc' = exc
                 /\ cyl' = args.scyl
                 /\ side' = 0
                 /\ pc' = IF args.scyl <= args.ecyl THEN "get_track" ELSE "summary"
    /\ UNCHANGED <<args, verified_count, not_verified_count, track, flux, factor,
                   rem, flux_list, retry, verified, v_flux, track_ops, touched,
                   completed, head,
                   got_tracks>>

\* Skipped with the erase-empty test inverted
Skipped_Inverted(t) == t = None /\ args.erase_empty

\* line 57: the position is skipped
Skipped(t) == t = None /\ ~args.erase_empty

\* lines 56-58: fetch the track of (cyl, side); skip an empty position
GetTrack ==
    /\ pc = "get_track"
    /\ \E t \in {None} \cup Tracks :
         /\ got_tracks' = IF t = None THEN got_tracks ELSE got_tracks + 1
         /\ IF Skipped(t)
            THEN Continue
            ELSE /\ track' = t
                 /\ pc' = "seek"
                 /\ UNCHANGED <<cyl, side, flux, factor, rem, flux_list, retry,
                                verified, v_flux, track_ops>>
    /\ UNCHANGED <<args, exc, drive_ticks, verified_count, not_verified_count,
                   issued, last_op, touched, completed, head>>

\* SeekCyl with double-stepping ignored
SeekCyl_SingleStep(c) == c

\* line 63: (cyl, cyl*2)[args.double_step]
SeekCyl(c) == IF args.double_step THEN c * 2 ELSE c

\* lines 60-65: seek to the position, then branch on an empty track
Seek ==
    /\ pc = "seek"
    /\ issued' = Count(issued, "seek")
    /\ track_ops' = Count(track_ops, "seek")
    /\ last_op' = [op |-> "seek", cyl |-> SeekCyl(cyl), side |-> side]
    /\ touched' = <<cyl, side>>
    /\ head' = [cyl |-> SeekCyl(cyl), side |-> side]
    /\ \/ Raise("CmdError")
       \/ /\ pc' = IF track = None THEN "erase" ELSE "convert"
          /\ exc' = exc
    /\ UNCHANGED <<args, drive_ticks, verified_count, not_verified_count, cyl,
                   side, track, flux, factor, rem, flux_list, retry, verified,
                   v_flux, got_tracks, completed>>

\* EraseTicks without the 10% margin
EraseTicks_NoMargin(ticks) == ticks

\* line 66: drive_ticks * 1.1
EraseTicks(ticks) == RatMul(ticks, Rat(11, 10))

\* lines 66-67: erase the empty track and move on
Erase ==
    /\ pc = "erase"
    /\ issued' = Count(issued, "erase_track")
    /\ last_op' = [op |-> "erase_track", ticks |-> EraseTicks(drive_ticks)]
    /\ touched' = <<cyl, side>>
    /\ \/ /\ Raise("CmdError")
          /\ track_ops' = Count(track_ops, "erase_track")
          /\ UNCHANGED <<cyl, side, track, flux, factor, rem, flux_list, retry,
                         verified, v_flux>>
       \/ /\ Continue
          /\ exc' = exc
    /\ UNCHANGED <<args, drive_ticks, verified_count, not_verified_count,
                   got_tracks, head, completed>>

\* lines 85-87: formatter, verified = False, the retry loop starts
EnterRetryLoop ==
    /\ verified' = FALSE
    /\ retry' = 0
    /\ pc' = "write"

\* Factor with the capture's mean index time as the divisor
Factor_MeanIndexTime(ticks, f) ==
    DblDiv(ticks.num * Len(f.index_list), ticks.den * Sum(f.index_list))

\* line 73: drive_ticks / flux.index_list[0], a float division
Factor(ticks, f) == DblDiv(ticks.num, ticks.den * f.index_list[1])

\* lines 69-77: the write-out capture, the factor, the converter's start
StartConvert ==
    /\ pc = "convert"
    /\ flux' = track.flux
    /\ IF track.flux.index_list[1] = 0
       THEN /\ Raise("ZeroDivisionError")
            /\ UNCHANGED <<factor, rem, flux_list, retry, verified>>
       ELSE /\ factor' = Factor(drive_ticks, track.flux)
            /\ rem' = DblInt(0)
            /\ flux_list' = <<>>
            /\ exc' = exc
            /\ IF track.flux.list = <<>>
               THEN EnterRetryLoop
               ELSE /\ pc' = "convert_loop"
                    /\ UNCHANGED <<retry, verified>>
    /\ UNCHANGED <<args, drive_ticks, verified_count, not_verified_count, cyl,
                   side, track, v_flux, issued, track_ops, last_op, touched,
                   completed, head,
                   got_tracks>>

\* ConvStep with int() alone: y is truncated, never rounded
ConvStep_Truncates(x, f, r) ==
    CHOOSE c \in
      { LET val == IF y.neg THEN -y.mag[1] ELSE y.mag[1]
        IN  [val |-> val, rem |-> DblSub(y, DblInt(val))] :
        y \in {DblAdd(DblMulInt(x, f), r)} } : TRUE

\* ConvStep with the remainder never added in: each sample rounded alone
ConvStep_NoCarry(x, f, r) ==
    CHOOSE c \in
      { LET val == PyRound(y)
        IN  [val |-> val, rem |-> DblSub(y, DblInt(val))] :
        y \in {DblMulInt(x, f)} } : TRUE

\* lines 79-81: one sample x with the carried remainder r
ConvStep(x, f, r) ==
    CHOOSE c \in
      { LET val == PyRound(y)
        IN  [val |-> val, rem |-> DblSub(y, DblInt(val))] :
        y \in {DblAdd(DblMulInt(x, f), r)} } : TRUE

\* lines 78-82: one iteration of the conversion loop
ConvertStep ==
    /\ pc = "convert_loop"
    /\ LET x == flux.list[Len(flux_list) + 1]
           c == ConvStep(x, factor, rem)
       IN  /\ rem' = c.rem
           /\ flux_list' = Append(flux_list, c.val)
           /\ IF Len(flux_list) + 1 = Len(flux.list)
              THEN EnterRetryLoop
              ELSE UNCHANGED <<pc, retry, verified>>
    /\ UNCHANGED <<args, exc, drive_ticks, verified_count, not_verified_count,
                   cyl, side, track, flux, factor, v_flux, issued, track_ops,
                   last_op, touched, completed, head, got_tracks>>

\* NoVerify without the AttributeError handler's case: a track whose verify
\* attribute is missing is taken to the read-back
NoVerify_MissingAttribute(t) ==
    \/ args.no_verify
    \/ t.verify = "None"

\* lines 89-92: verification is disabled or the track has no verifier
NoVerify(t) ==
    \/ args.no_verify
    \/ t.verify = "None"
    \/ t.verify = "undefined"

\* Write with the terminate-at-index flag passed on the first attempt only
Write_RetriesUnterminated ==
    /\ pc = "write"
    /\ issued' = Count(issued, "write_track")
    /\ track_ops' = Count(track_ops, "write_track")
    /\ last_op' = [op |-> "write_track", flux_list |-> flux_list,
                   terminate_at_index |-> retry = 0 /\ flux.terminate_at_index]
    /\ touched' = <<cyl, side>>
    /\ \/ /\ Raise("CmdError")
          /\ UNCHANGED <<not_verified_count, verified>>
       \/ /\ exc' = exc
          /\ IF NoVerify(track)
             THEN /\ not_verified_count' = not_verified_count + 1
                  /\ verified' = TRUE
                  /\ pc' = "check"
             ELSE /\ pc' = "read"
                  /\ UNCHANGED <<not_verified_count, verified>>
    /\ UNCHANGED <<args, drive_ticks, verified_count, cyl, side, track, flux,
                   factor, rem, flux_list, retry, v_flux, got_tracks, head,
                   completed>>

\* lines 88-96: one write attempt, then the no-verify exit
Write ==
    /\ pc = "write"
    /\ issued' = Count(issued, "write_track")
    /\ track_ops' = Count(track_ops, "write_track")
    /\ last_op' = [op |-> "write_track", flux_list |-> flux_list,
                   terminate_at_index |-> flux.terminate_at_index]
    /\ touched' = <<cyl, side>>
    /\ \/ /\ Raise("CmdError")
          /\ UNCHANGED <<not_verified_count, verified>>
       \/ /\ exc' = exc
          /\ IF NoVerify(track)
             THEN /\ not_verified_count' = not_verified_count + 1
                  /\ verified' = TRUE
                  /\ pc' = "check"
             ELSE /\ pc' = "read"
                  /\ UNCHANGED <<not_verified_count, verified>>
    /\ UNCHANGED <<args, drive_ticks, verified_count, cyl, side, track, flux,
                   factor, rem, flux_list, retry, v_flux, got_tracks, head,
                   completed>>

\* VerifyRevs with the splice ignored: always one revolution
VerifyRevs_OneRev(t) == 1

\* line 97
VerifyRevs(t) == IF t.splice = 0 THEN 1 ELSE 2

\* ReadbackScale from the calibrated drive_ticks instead of the track's
\* capture
ReadbackScale_DriveTicks(f, v) == RatDiv(drive_ticks, mean_index_time(v))

\* line 99: flux.mean_index_time / v_flux.mean_index_time
ReadbackScale(f, v) == RatDiv(mean_index_time(f), mean_index_time(v))

\* Read with the read-back capture taken as a new calibration
Read_Recalibrates ==
    /\ pc = "read"
    /\ issued' = Count(issued, "read_track")
    /\ track_ops' = Count(track_ops, "read_track")
    /\ last_op' = [op |-> "read_track", revs |-> VerifyRevs(track)]
    /\ \/ /\ Raise("CmdError")
          /\ UNCHANGED <<v_flux, drive_ticks>>
       \/ \E index_list \in ReadbackIndexLists(VerifyRevs(track)) :
            LET v == Capture(<<>>, index_list, FALSE)
            IN  IF Sum(index_list) = 0
                THEN /\ Raise("ZeroDivisionError")
                     /\ UNCHANGED <<v_flux, drive_ticks>>
                ELSE /\ v_flux' = [index_list |-> index_list,
                                   scale |-> ReadbackScale(flux, v)]
                     /\ drive_ticks' = mean_index_time(v)
                     /\ exc' = exc
                     /\ pc' = "verify"
    /\ UNCHANGED <<args, verified_count, not_verified_count, cyl,
                   side, track, flux, factor, rem, flux_list, retry, verified,
                   touched, completed, head, got_tracks>>

\* lines 97-99: the read-back capture, scaled to the track's index time
Read ==
    /\ pc = "read"
    /\ issued' = Count(issued, "read_track")
    /\ track_ops' = Count(track_ops, "read_track")
    /\ last_op' = [op |-> "read_track", revs |-> VerifyRevs(track)]
    /\ \/ /\ Raise("CmdError")
          /\ UNCHANGED v_flux
       \/ \E index_list \in ReadbackIndexLists(VerifyRevs(track)) :
            LET v == Capture(<<>>, index_list, FALSE)
            IN  IF Sum(index_list) = 0
                THEN /\ Raise("ZeroDivisionError")
                     /\ UNCHANGED v_flux
                ELSE /\ v_flux' = [index_list |-> index_list,
                                   scale |-> ReadbackScale(flux, v)]
                     /\ exc' = exc
                     /\ pc' = "verify"
    /\ UNCHANGED <<args, drive_ticks, verified_count, not_verified_count, cyl,
                   side, track, flux, factor, rem, flux_list, retry, verified,
                   touched, completed, head, got_tracks>>

\* MoreAttempts with a budget of five attempts
MoreAttempts_FiveAttempts(r) == r + 1 < NrAttempts + 2

\* MoreAttempts with the loop bound off by one: a fourth attempt
MoreAttempts_OffByOne(r) == r < NrAttempts

\* range(3), line 87: another attempt follows attempt number r (from 0)
MoreAttempts(r) == r + 1 < NrAttempts

\* Verify with the count taken at every verdict, mismatches included
Verify_CountsAttempts ==
    /\ pc = "verify"
    /\ \E ok \in BOOLEAN :
         /\ verified' = ok
         /\ verified_count' = verified_count + 1
         /\ IF ok
            THEN /\ pc' = "check"
                 /\ UNCHANGED retry
            ELSE IF MoreAttempts(retry)
                 THEN /\ retry' = retry + 1
                      /\ pc' = "write"
                 ELSE /\ pc' = "check"
                      /\ UNCHANGED retry
    /\ v_flux' = None
    /\ UNCHANGED <<args, exc, drive_ticks, not_verified_count, cyl, side, track,
                   flux, factor, rem, flux_list, issued, track_ops, last_op,
                   touched, completed, head, got_tracks>>

\* Verify without the break of line 103: a verified track is counted and
\* the loop goes on to its next attempt
Verify_NoBreak ==
    /\ pc = "verify"
    /\ \E ok \in BOOLEAN :
         /\ verified' = ok
         /\ verified_count' = IF ok THEN verified_count + 1 ELSE verified_count
         /\ IF MoreAttempts(retry)
            THEN /\ retry' = retry + 1
                 /\ pc' = "write"
            ELSE /\ pc' = "check"
                 /\ UNCHANGED retry
    /\ v_flux' = None
    /\ UNCHANGED <<args, exc, drive_ticks, not_verified_count, cyl, side, track,
                   flux, factor, rem, flux_list, issued, track_ops, last_op,
                   touched, completed, head, got_tracks>>

\* lines 100-104: the verifier's verdict, then done, retry or give up
Verify ==
    /\ pc = "verify"
    /\ \E ok \in BOOLEAN :
         /\ verified' = ok
         /\ IF ok
            THEN /\ verified_count' = verified_count + 1
                 /\ pc' = "check"
                 /\ UNCHANGED retry
            ELSE /\ UNCHANGED verified_count
                 /\ IF MoreAttempts(retry)
                    THEN /\ retry' = retry + 1
                         /\ pc' = "write"
                    ELSE /\ pc' = "check"
                         /\ UNCHANGED retry
    /\ v_flux' = None
    /\ UNCHANGED <<args, exc, drive_ticks, not_verified_count, cyl, side, track,
                   flux, factor, rem, flux_list, issued, track_ops, last_op,
                   touched, completed, head, got_tracks>>

\* error.check(pred, desc): raises error.Fatal unless pred holds
check_raises(pred) == ~pred

\* Check with the failure only reported: the job goes on to the next track
Check_ReportOnly ==
    /\ pc = "check"
    /\ Continue
    /\ exc' = exc
    /\ completed' = IF verified THEN completed + 1 ELSE completed
    /\ UNCHANGED <<args, drive_ticks, verified_count, not_verified_count, issued,
                   last_op, touched, head, got_tracks>>

\* lines 105-106: a track that never verified is fatal
Check ==
    /\ pc = "check"
    /\ IF check_raises(verified)
       THEN /\ Raise("Fatal")
            /\ UNCHANGED <<cyl, side, track, flux, factor, rem, flux_list, retry,
                           verified, v_flux, track_ops, completed>>
       ELSE /\ Continue
            /\ exc' = exc
            /\ completed' = completed + 1
    /\ UNCHANGED <<args, drive_ticks, verified_count, not_verified_count, issued,
                   last_op, touched, head, got_tracks>>

\* lines 108-119: the summary is printed and write_from_image returns
Summary ==
    /\ pc = "summary"
    /\ pc' = "done"
    /\ UNCHANGED <<args, exc, drive_ticks, verified_count, not_verified_count,
                   cyl, side, track, flux, factor, rem, flux_list, retry,
                   verified, v_flux, issued, track_ops, last_op, touched,
                   completed, head,
                   got_tracks>>

\* main, lines 146-151: only USB.CmdError is caught, and reported
MainExcept ==
    /\ pc = "raised"
    /\ exc = "CmdError"
    /\ pc' = "command_failed"
    /\ UNCHANGED <<args, exc, drive_ticks, verified_count, not_verified_count,
                   cyl, side, track, flux, factor, rem, flux_list, retry,
                   verified, v_flux, issued, track_ops, last_op, touched,
                   completed, head,
                   got_tracks>>

Next ==
    \/ Calibrate
    \/ GetTrack
    \/ Seek
    \/ Erase
    \/ StartConvert
    \/ ConvertStep
    \/ Write
    \/ Read
    \/ Verify
    \/ Check
    \/ Summary
    \/ MainExcept

Spec == Init /\ [][Next]_vars

\* The job with every call returning: a step that can be taken is
\* eventually taken (the interpreter does not stop between two statements).
SpecFair == Spec /\ WF_vars(Next)

-----------------------------------------------------------------------------
(* The rate converter on its own: lines 76-82 from every bounded input.     *)
(* The state is the one write_from_image is in at line 78 for a track whose *)
(* capture has the drawn intervals, with the drawn factor num/den arising   *)
(* from drive_ticks = num and index_list[0] = den.                          *)

RECURSIVE SeqsUpTo(_, _)
SeqsUpTo(S, n) ==
    IF n = 0 THEN { <<>> }
    ELSE LET shorter == SeqsUpTo(S, n - 1)
         IN  shorter \cup { Append(q, x) : q \in shorter, x \in S }

ConvInputs == SeqsUpTo(1..MaxInterval, MaxLen) \ { <<>> }

\* ten intervals of one tick, to be converted with the factor 23 / 20, the
\* float 1.15
ExampleInput == <<1, 1, 1, 1, 1, 1, 1, 1, 1, 1>>
ExampleFactor == Rat(23, 20)

ConvCases ==
    { <<list, num, den>> :
        list \in ConvInputs, num \in 1..MaxNum, den \in 1..MaxDen }
    \cup { <<ExampleInput, ExampleFactor.num, ExampleFactor.den>> }

InitConv ==
    \E case \in ConvCases :
      LET list == case[1]
          num == case[2]
          den == case[3]
      IN
       /\ args = [scyl |-> 0, ecyl |-> 0, nr_sides |-> 1, erase_empty |-> FALSE,
                  double_step |-> FALSE, no_verify |-> TRUE]
       /\ pc = "convert_loop"
       /\ exc = "none"
       /\ drive_ticks = CalibratedTicks(<<num, num>>)
       /\ verified_count = 0
       /\ not_verified_count = 0
       /\ cyl = 0
       /\ side = 0
       /\ track = Track(Capture(list, <<den>>, TRUE), "None", 0)
       /\ flux = track.flux
       /\ factor = Factor(drive_ticks, flux)
       /\ rem = DblInt(0)
       /\ flux_list = <<>>
       /\ retry = 0
       /\ verified = FALSE
       /\ v_flux = None
       /\ issued = [NoOps EXCEPT !.read_track = 1, !.seek = 1]
       /\ track_ops = [NoOps EXCEPT !.seek = 1]
       /\ last_op = [op |-> "seek", cyl |-> 0, side |-> 0]
       /\ touched = <<0, 0>>
       /\ head = [cyl |-> 0, side |-> 0]
       /\ completed = 0
       /\ got_tracks = 1

NextConv == ConvertStep

SpecConv == InitConv /\ [][NextConv]_vars

-----------------------------------------------------------------------------
(* Properties *)

\* |sum(output[0..k]) - factor * sum(input[0..k])| at the current prefix,
\* computed exactly (no rounding) as a magnitude
PrefixDrift ==
    LET k == Len(flux_list)
        out == MagInt(Sum(flux_list))
        ideal == MagMulInt(Sum(Prefix(flux.list, k)), factor.mag)
    IN  IF MagLess(out, ideal) THEN MagSub(ideal, out) ELSE MagSub(out, ideal)

\* each sample rounded on its own, no remainder carried
IndependentlyRounded(list, f) ==
    [i \in 1..Len(list) |-> PyRound(DblMulInt(list[i], f))]

\* C3: at every prefix of the conversion, for every factor > 0, the sum of
\* the output so far differs from factor * (sum of the input so far) by
\* less than 1.
C3_PrefixDriftBelowOne ==
    (pc \in {"convert_loop", "write"} /\ DblPositive(factor))
        => (\A i \in 1..Len(flux_list) : flux_list[i] >= 0) /\ PrefixDrift[1] = 0

\* C3 witness: a whole list converted with a fractional factor, where the
\* carried remainder changed the output against independent rounding.
C3_Witness ==
    /\ pc = "write"
    /\ Len(flux_list) = MaxLen
    /\ factor.mag # MagInt(factor.mag[1])
    /\ flux_list # IndependentlyRounded(flux.list, factor)

-----------------------------------------------------------------------------

\* the track being processed has finished its retry loop
AfterRetryLoop == pc = "check" \/ exc = "Fatal"

\* C1: for every track, whatever the verifier answers, at most 3 write_track
\* calls are issued for it (a 4th is never reachable), and a track that
\* leaves the retry loop, verified or failed, has had at least 1.
C1_WritesPerTrack ==
    /\ track_ops.write_track <= 3
    /\ retry <= 2
    /\ AfterRetryLoop => track_ops.write_track >= 1

\* C1 witness: a track leaves the retry loop after its third write.
C1_Witness ==
    /\ pc = "check"
    /\ track_ops.write_track = 3
    /\ track_ops.read_track = 3

\* the step that takes the verifier's third consecutive mismatch
ThirdMismatch ==
    /\ pc = "verify"
    /\ track_ops.write_track = 3
    /\ ~verified'
    /\ pc' # "raised"

\* C2: after a track's third verify mismatch the job aborts with the fatal
\* track-write failure at that (cyl, side): the only step that follows raises
\* Fatal there, nothing happens after it (no device call, no get_track, no
\* move to a later position), and the job never reaches normal completion.
C2_ThirdMismatchIsFatal ==
    /\ [][ThirdMismatch => (pc' = "check" /\ ~verified')]_vars
    /\ [][(pc = "check" /\ ~verified)
            => (exc' = "Fatal" /\ pc' = "raised" /\ issued' = issued
                /\ cyl' = cyl /\ side' = side /\ track' = track)]_vars
    /\ [][exc # "Fatal"]_vars
    /\ [](exc = "Fatal" => (pc = "raised" /\ track_ops.write_track = 3
                            /\ ~verified /\ touched = <<cyl, side>>))
    /\ [](pc \in {"summary", "done"} => exc = "none")

\* C2 witness: the job is aborted by the failure of a track that is not the
\* last position of the range.
C2_Witness ==
    /\ exc = "Fatal"
    /\ pc = "raised"
    /\ track_ops.read_track = 3
    /\ <<cyl, side>> # <<args.ecyl, args.nr_sides - 1>>
    /\ cyl <= args.ecyl

\* verification is globally disabled or the current track has no verifier
VerificationOff ==
    /\ track # None
    /\ (args.no_verify \/ track.verify \in {"None", "undefined"})

\* C4: a track with verification off is written exactly once, never read
\* back and never fails the job; when its write returns, not_verified_count
\* grows by exactly 1, verified_count stays, and the job goes on to the next
\* position.
C4_NoVerifyTrack ==
    /\ [](VerificationOff
            => /\ track_ops.write_track <= 1
               /\ track_ops.read_track = 0
               /\ pc \notin {"read", "verify"}
               /\ exc # "Fatal"
               /\ pc = "check" => (track_ops.write_track = 1 /\ verified))
    /\ [][(pc = "write" /\ VerificationOff /\ exc' = "none")
            => /\ not_verified_count' = not_verified_count + 1
               /\ verified_count' = verified_count
               /\ pc' = "check"]_vars
    /\ [][(pc = "check" /\ VerificationOff)
            => /\ pc' \in {"get_track", "summary"}
               /\ exc' = "none"
               /\ <<cyl', side'>> # <<cyl, side>>
               /\ issued' = issued
               /\ not_verified_count' = not_verified_count
               /\ verified_count' = verified_count]_vars

\* C4 witness: with verification enabled, a second track without a usable
\* verifier (the attribute is missing) has just been written.
C4_Witness ==
    /\ pc = "check"
    /\ ~args.no_verify
    /\ track # None
    /\ track.verify = "undefined"
    /\ track_ops.write_track = 1
    /\ not_verified_count = 2

-----------------------------------------------------------------------------

LexLess(p, q) == p[1] < q[1] \/ (p[1] = q[1] /\ p[2] < q[2])
LexLeq(p, q) == p = q \/ LexLess(p, q)

\* this step issues the named device call
Issues(op) == issued'[op] = issued[op] + 1

\* this step issues a seek, a write_track or an erase_track
TouchesTrack == Issues("seek") \/ Issues("write_track") \/ Issues("erase_track")

\* C5: positions are visited in order, cylinders scyl..ecyl outside and
\* sides 0..nr_sides-1 inside.  Every seek, write_track and erase_track is
\* issued at (cyl, side), which is never below the position touched before
\* it (equal only within one position: its seek, its erase, its writes and
\* rewrites); each seek goes to a strictly later position than every
\* earlier call; the loop starts at (scyl, 0) and moves only to the
\* immediate successor position.
C5_TracksInOrder ==
    /\ [][TouchesTrack
            => /\ touched' = <<cyl, side>>
               /\ touched # <<>> => LexLeq(touched, touched')]_vars
    /\ [][Issues("seek") => (touched # <<>> => LexLess(touched, touched'))]_vars
    /\ [][(pc = "calibrate" /\ pc' = "get_track")
            => <<cyl', side'>> = <<args.scyl, 0>>]_vars
    /\ [][(pc # "calibrate" /\ <<cyl', side'>> # <<cyl, side>>)
            => \/ /\ side + 1 < args.nr_sides
                  /\ <<cyl', side'>> = <<cyl, side + 1>>
               \/ /\ side + 1 = args.nr_sides
                  /\ <<cyl', side'>> = <<cyl + 1, 0>>
                  /\ pc' = "summary" <=> cyl = args.ecyl]_vars
    /\ [](pc \in {"get_track", "seek", "erase", "convert", "convert_loop",
                  "write", "read", "verify", "check"}
            => /\ cyl \in args.scyl..args.ecyl
               /\ side \in 0..(args.nr_sides - 1)
               /\ touched # <<>> => LexLeq(touched, <<cyl, side>>))

\* C5 witness: the last position of a two-cylinder, two-sided range is being
\* rewritten after a retry, every position before it having been touched.
C5_Witness ==
    /\ args.scyl = 0
    /\ <<cyl, side>> = <<1, 1>>
    /\ touched = <<1, 1>>
    /\ pc = "read"
    /\ retry = 1
    /\ issued.seek = 4

\* C6: the calibration capture runs exactly once per job and is the job's
\* first device call, so it precedes every seek, write_track and
\* erase_track; drive_ticks is assigned by it alone, and no later read_track
\* (the read-backs) or any other step changes it.
C6_CalibratedOnce ==
    /\ [][drive_ticks' # drive_ticks
            => /\ pc = "calibrate"
               /\ drive_ticks = None
               /\ Issues("read_track")
               /\ last_op'.revs = 2]_vars
    /\ [][pc' = "calibrate" => pc = "calibrate"]_vars
    /\ [](pc = "calibrate" => (issued = NoOps /\ drive_ticks = None))
    /\ [](issued.seek + issued.write_track + issued.erase_track > 0
            => drive_ticks # None)
    /\ []((pc # "calibrate" /\ exc = "none") => drive_ticks # None)

\* C6 witness: a job that has calibrated, finished one position and taken a
\* two-revolution read-back on a later one.
C6_Witness ==
    /\ drive_ticks # None
    /\ pc = "verify"
    /\ last_op.revs = 2
    /\ issued.seek >= 2
    /\ issued.read_track >= 3

\* C7: a transport error (CmdError) from seek, read_track, write_track or
\* erase_track ends the job: once raised, no device call follows (the
\* failing call is not repeated, the retry loop does not go on, no later
\* position is fetched), the job never completes normally, and the only
\* step left is main's handler reporting the failed command.
C7_CmdErrorIsFatal ==
    /\ [][exc = "CmdError"
            => /\ pc = "raised"
               /\ pc' = "command_failed"
               /\ UNCHANGED <<exc, issued, track_ops, last_op, touched, cyl,
                              side, track, retry, verified_count,
                              not_verified_count, got_tracks>>]_vars
    /\ [](exc = "CmdError" => pc \in {"raised", "command_failed"})
    /\ [](pc = "command_failed" => exc = "CmdError")
    /\ [](pc \in {"summary", "done"} => exc = "none")

\* C7 witness: a write_track fails on a retry, with later positions left.
C7_Witness ==
    /\ exc = "CmdError"
    /\ pc = "command_failed"
    /\ last_op.op = "write_track"
    /\ retry = 1
    /\ cyl < args.ecyl

\* the drive timing could not be established: the calibration capture
\* failed, or it gave a zero index period
CalibrationFailed ==
    \/ drive_ticks = None /\ exc # "none"
    \/ drive_ticks # None /\ drive_ticks.num = 0

\* C8 (as claimed): when drive timing cannot be established (the capture
\* fails or yields a zero index period), no seek, write_track or erase_track
\* is ever issued.
C8_Claim ==
    CalibrationFailed
        => issued.seek + issued.write_track + issued.erase_track = 0

\* C9 (as claimed): whenever a write_track or erase_track has been issued,
\* drive_ticks > 0, and the rescale factor of a written track is strictly
\* positive and finite.
C9_Claim ==
    /\ issued.write_track + issued.erase_track > 0 => drive_ticks.num > 0
    /\ track_ops.write_track > 0 => DblPositive(factor)

\* C10: at a position where the image has no track, with erase-empty off,
\* no device call is issued and both counters stay: the job moves straight
\* to the next position.  A job with erase-empty off in which get_track
\* never returned a track never raises, and at its normal completion the
\* calibration capture is the only device call issued, with zero verified
\* and zero not-verified.
C10_EmptyPositionUntouched ==
    /\ [][(pc = "get_track" /\ ~args.erase_empty /\ got_tracks' = got_tracks)
            => /\ issued' = issued
               /\ last_op' = last_op
               /\ touched' = touched
               /\ verified_count' = verified_count
               /\ not_verified_count' = not_verified_count
               /\ <<cyl', side'>> # <<cyl, side>>
               /\ pc' \in {"get_track", "summary"}]_vars
    /\ []((~args.erase_empty /\ got_tracks = 0 /\ pc # "calibrate"
           /\ drive_ticks # None)
            => /\ exc = "none"
               /\ pc \in {"get_track", "summary", "done"}
               /\ issued = [NoOps EXCEPT !.read_track = 1]
               /\ last_op = [op |-> "read_track", revs |-> CalibrationRevs]
               /\ touched = <<>>
               /\ verified_count = 0
               /\ not_verified_count = 0)

\* C10 witness: a four-position job over an empty image, erase-empty off,
\* has completed.
C10_Witness ==
    /\ pc = "done"
    /\ ~args.erase_empty
    /\ got_tracks = 0
    /\ args.scyl < args.ecyl
    /\ args.nr_sides = 2

-----------------------------------------------------------------------------

\* the current position is an empty one that is to be erased
EmptyToErase == track = None /\ args.erase_empty

\* C11: erase_track is issued only at a position where the image has no
\* track and erase-empty is on, directly after the seek to that position, at
\* most once there (the job then moves on, or aborts on a transport error),
\* and always for 1.1 * drive_ticks; a position reached by the seek with no
\* track is erased by the next step, and is never written, read back,
\* retried or counted.
C11_EraseOnlyEmpty ==
    /\ [][Issues("erase_track")
            => /\ EmptyToErase
               /\ last_op.op = "seek"
               /\ last_op.side = side
               /\ touched = <<cyl, side>>
               /\ track_ops = [NoOps EXCEPT !.seek = 1]
               /\ last_op'.op = "erase_track"
               /\ last_op'.ticks.num * 10 * drive_ticks.den
                    = 11 * drive_ticks.num * last_op'.ticks.den
               /\ verified_count' = verified_count
               /\ not_verified_count' = not_verified_count
               /\ exc' = "none" => <<cyl', side'>> # <<cyl, side>>
               /\ exc' # "none" => pc' = "raised"]_vars
    /\ [][(pc = "seek" /\ track = None /\ exc' = "none") => pc' = "erase"]_vars
    /\ [][pc = "erase" => Issues("erase_track")]_vars
    /\ [](pc = "erase" => EmptyToErase)
    /\ []((pc \in {"seek", "erase", "raised", "command_failed"} /\ track = None)
            => /\ track_ops.write_track = 0
               /\ track_ops.read_track = 0
               /\ track_ops.erase_track <= 1
               /\ retry = 0)
    /\ [](track = None
            => pc \notin {"convert", "convert_loop", "write", "read", "verify",
                          "check"})
    /\ [](issued.erase_track > 0 => args.erase_empty)

\* C11 witness: a second empty position has just been erased, with a
\* positive drive_ticks.
C11_Witness ==
    /\ last_op # None
    /\ last_op.op = "erase_track"
    /\ issued.erase_track = 2
    /\ drive_ticks.num > 0
    /\ exc = "none"

\* C12: every read-back capture of a verified track asks for exactly 1
\* revolution when the track's splice is 0 and exactly 2 otherwise, on the
\* first attempt and on every retry.
C12_VerifyRevolutions ==
    /\ [][(pc # "calibrate" /\ Issues("read_track"))
            => /\ pc = "read"
               /\ track # None
               /\ last_op'.op = "read_track"
               /\ last_op'.revs = IF track.splice = 0 THEN 1 ELSE 2]_vars
    /\ [](pc = "verify"
            => Len(v_flux.index_list) = IF track.splice = 0 THEN 1 ELSE 2)

\* C12 witness: the third attempt of a spliced track has been read back.
C12_Witness ==
    /\ pc = "verify"
    /\ track.splice # 0
    /\ retry = 2
    /\ last_op.revs = 2

-----------------------------------------------------------------------------

\* the reference algorithm on the first k intervals: from residual 0, each
\* output is the integer nearest to x * f + residual (a tie goes to the even
\* one) and the new residual is that value minus the output
RECURSIVE Reference(_, _, _)
Reference(list, f, k) ==
    IF k = 0 THEN [out |-> <<>>, rem |-> DblInt(0)]
    ELSE LET p == Reference(list, f, k - 1)
             y == DblAdd(DblMulInt(list[k], f), p.rem)
             n == PyRound(y)
         IN  [out |-> Append(p.out, n), rem |-> DblSub(y, DblInt(n))]

\* the conversion of ExampleInput with the float 1.15 has finished
ExampleConverted ==
    /\ pc = "write"
    /\ flux.list = ExampleInput
    /\ factor = DblDiv(ExampleFactor.num, ExampleFactor.den)

\* C13 as stated: the output is the reference algorithm's, and ten 1s with
\* the factor 1.15 give [1,1,1,2,1,1,1,1,1,2], of sum 12.
C13_Claim ==
    /\ pc \in {"convert_loop", "write"}
         => flux_list = Reference(flux.list, factor, Len(flux_list)).out
    /\ ExampleConverted
         => /\ flux_list = <<1, 1, 1, 2, 1, 1, 1, 1, 1, 2>>
            /\ Sum(flux_list) = 12

\* C13, amended: at every prefix the output and the carried residual are the
\* reference algorithm's, computed in floats; ten 1s with the factor 1.15
\* give [1,1,1,2,1,1,1,1,1,1], of sum 11, since the float 1.15 is below
\* 23/20 and the tenth value falls below 1.5; this is still not the ten 1s
\* of independent rounding.
C13_MatchesReference ==
    /\ pc \in {"convert_loop", "write"}
         => /\ flux_list = Reference(flux.list, factor, Len(flux_list)).out
            /\ pc = "convert_loop"
                 => rem = Reference(flux.list, factor, Len(flux_list)).rem
    /\ ExampleConverted
         => /\ flux_list = <<1, 1, 1, 2, 1, 1, 1, 1, 1, 1>>
            /\ Sum(flux_list) = 11
            /\ flux_list # IndependentlyRounded(flux.list, factor)

\* C13 witness: the example has been converted and its fourth output took
\* the carried residual.
C13_Witness ==
    /\ ExampleConverted
    /\ Len(flux_list) = Len(ExampleInput)
    /\ flux_list[4] = 2

-----------------------------------------------------------------------------

\* the cylinder a seek for logical cylinder c must go to
TargetCyl(c) == IF args.double_step THEN 2 * c ELSE c

\* C14: each processed position gets exactly one seek, issued before its
\* first write_track or erase_track, to cylinder 2*cyl when double-stepping
\* and to cyl otherwise, and to its side; every write_track and erase_track
\* is issued with the most recent seek having gone to the current position.
C14_SeekBeforeWrite ==
    /\ [][Issues("seek")
            => /\ track_ops = NoOps
               /\ head' = [cyl |-> TargetCyl(cyl), side |-> side]
               /\ last_op' = [op |-> "seek", cyl |-> TargetCyl(cyl),
                              side |-> side]]_vars
    /\ [][(Issues("write_track") \/ Issues("erase_track"))
            => /\ track_ops.seek = 1
               /\ last_op.op = "seek" \/ track_ops.write_track > 0
               /\ head = [cyl |-> TargetCyl(cyl), side |-> side]]_vars
    /\ [][(track_ops' # NoOps /\ exc' = "none")
            => /\ <<cyl', side'>> = <<cyl, side>>
               /\ track_ops'.seek >= track_ops.seek]_vars
    /\ [](track_ops.seek <= 1)
    /\ [](pc \in {"erase", "convert", "convert_loop", "write", "read",
                   "verify", "check"}
            => /\ track_ops.seek = 1
               /\ head = [cyl |-> TargetCyl(cyl), side |-> side])

\* C14 witness: with double-stepping, the track of cylinder 1 is rewritten
\* after a failed verify, the head standing at cylinder 2 since the one seek
\* of this position.
C14_Witness ==
    /\ args.double_step
    /\ cyl = 1
    /\ last_op # None /\ last_op.op = "write_track"
    /\ track_ops = [NoOps EXCEPT !.seek = 1, !.write_track = 2, !.read_track = 1]
    /\ head = [cyl |-> 2, side |-> side]

-----------------------------------------------------------------------------

\* this step is a verify_track call that answers success
VerifySucceeds == pc = "verify" /\ verified'

\* C15: the first successful verify of a track, at attempt 1, 2 or 3, ends
\* the track: verified_count grows by exactly 1 (and grows at no other
\* step), not_verified_count stays, nothing is raised, no call is issued,
\* and the only step that follows moves to the next position without a
\* failure, so that no further write_track or read_track is issued for the
\* track.
C15_FirstSuccessEndsTrack ==
    /\ [][VerifySucceeds
            => /\ retry \in 0..2
               /\ track_ops.write_track = retry + 1
               /\ track_ops.read_track = retry + 1
               /\ verified_count' = verified_count + 1
               /\ not_verified_count' = not_verified_count
               /\ exc' = "none"
               /\ pc' = "check"
               /\ issued' = issued
               /\ <<cyl', side'>> = <<cyl, side>>]_vars
    /\ [][verified_count' # verified_count => VerifySucceeds]_vars
    /\ [][(pc = "check" /\ verified)
            => /\ exc' = "none"
               /\ pc' \in {"get_track", "summary"}
               /\ LexLess(<<cyl, side>>, <<cyl', side'>>)
               /\ track_ops' = NoOps
               /\ issued' = issued
               /\ verified_count' = verified_count
               /\ not_verified_count' = not_verified_count]_vars
    /\ [][(Issues("write_track") \/ Issues("read_track")) => ~verified]_vars

\* C15 witness: a second track has verified, this one at its second attempt,
\* and is about to be left.
C15_Witness ==
    /\ pc = "check"
    /\ verified
    /\ verified_count = 2
    /\ not_verified_count = 0
    /\ track_ops.write_track = 2
    /\ track_ops.read_track = 2

-----------------------------------------------------------------------------

\* the track's conversion has started: factor has been computed for it
Converting == pc \in {"convert_loop", "write", "read", "verify", "check"}

\* C16: while a track is converted and written, factor is the float
\* quotient of drive_ticks and the first index time of that track's own
\* write-out capture; it is computed anew when the track's conversion
\* starts, from that capture alone and drive_ticks.
C16_FactorFromFirstIndex ==
    /\ [](Converting
            => /\ flux = track.flux
               /\ flux.index_list[1] > 0
               /\ factor = DblDiv(drive_ticks.num,
                                  drive_ticks.den * flux.index_list[1]))
    /\ [][(pc = "convert" /\ exc' = "none")
            => /\ flux' = track.flux
               /\ factor' = DblDiv(drive_ticks.num,
                                   drive_ticks.den * track.flux.index_list[1])]_vars
    /\ [][factor' # factor => pc \in {"convert", "check", "erase"}]_vars

\* C16 witness: a second track is converted, its capture has two index
\* times whose mean is not the first, and the factor in use differs from the
\* one the mean would give.
C16_Witness ==
    /\ pc = "write"
    /\ got_tracks >= 2
    /\ Len(flux.index_list) = 2
    /\ flux.index_list[1] * 2 # Sum(flux.index_list)
    /\ DblPositive(factor)
    /\ factor # DblDiv(drive_ticks.num * 2,
                       drive_ticks.den * Sum(flux.index_list))

-----------------------------------------------------------------------------

\* C17: in every attempt that verifies, write_track comes first, read_track
\* right after it, and verify_track gets the capture of that read, scaled
\* by (mean index time of the track's capture / mean index time of the
\* read-back capture), a quotient of the two captures' index times alone;
\* the capture is used for one verify_track and no more.
C17_VerifyOrder ==
    /\ [](pc = "verify"
            => /\ v_flux # None
               /\ last_op.op = "read_track"
               /\ track_ops.write_track = retry + 1
               /\ track_ops.read_track = retry + 1
               /\ v_flux.scale.num * Len(flux.index_list) * Sum(v_flux.index_list)
                    = v_flux.scale.den * Sum(flux.index_list)
                        * Len(v_flux.index_list))
    /\ [](pc = "read"
            => /\ v_flux = None
               /\ last_op.op = "write_track"
               /\ track_ops.write_track = retry + 1
               /\ track_ops.read_track = retry)
    /\ [][(pc' = "verify" /\ pc # "verify")
            => pc = "read" /\ Issues("read_track")]_vars
    /\ [][(pc' = "read" /\ pc # "read")
            => pc = "write" /\ Issues("write_track")]_vars
    /\ [][(verified' # verified /\ verified' /\ ~NoVerify(track))
            => pc = "verify"]_vars
    /\ [][pc = "verify" => v_flux' = None /\ issued' = issued]_vars

\* C17 witness: the second attempt's read-back is about to be verified, its
\* scale being neither 1 nor what drive_ticks or the write-side factor
\* would give.
C17_Witness ==
    /\ pc = "verify"
    /\ retry = 1
    /\ v_flux.scale.num # v_flux.scale.den
    /\ v_flux.scale # RatDiv(drive_ticks, mean_index_time(v_flux))
    /\ drive_ticks # mean_index_time(flux)
    /\ DblPositive(factor)

-----------------------------------------------------------------------------

\* the tracks that have completed successfully so far: those whose check at
\* line 105 has passed, and the current one once its retry loop has been
\* left with verified set
DoneTracks == completed + (IF pc = "check" /\ verified THEN 1 ELSE 0)

\* C18: in every state verified_count + not_verified_count is the number of
\* tracks completed so far.  A counter changes only at the step that sets
\* verified for the current track, where exactly one of the two grows by
\* exactly 1, whatever the number of attempts; a skipped, an erased and a
\* failed track change neither.
C18_CountersCountDoneTracks ==
    /\ [](verified_count + not_verified_count = DoneTracks)
    /\ [][<<verified_count, not_verified_count>>'
             # <<verified_count, not_verified_count>>
            => /\ track # None
               /\ ~verified /\ verified'
               /\ pc \in {"write", "verify"} /\ pc' = "check"
               /\ \/ /\ verified_count' = verified_count + 1
                     /\ not_verified_count' = not_verified_count
                  \/ /\ verified_count' = verified_count
                     /\ not_verified_count' = not_verified_count + 1]_vars
    /\ [][(track = None \/ exc' # "none" \/ ~verified')
            => <<verified_count, not_verified_count>>'
                 = <<verified_count, not_verified_count>>]_vars
    /\ [](verified => pc = "check" /\ track # None)

\* C18 witness: three tracks are done, one without verification and two
\* verified, the last of them at its third attempt.
C18_Witness ==
    /\ pc = "check"
    /\ verified
    /\ retry = 2
    /\ completed = 2
    /\ verified_count = 2
    /\ not_verified_count = 1

-----------------------------------------------------------------------------

\* the retry loop of the current track is running
InRetryLoop == pc \in {"write", "read", "verify"}

\* C19: every write_track of a track, the first and each retry, sends the
\* whole converted sequence and the capture's terminate-at-index flag, and
\* these are the same at every attempt: while the retry loop runs, the
\* sequence, the capture, the track, factor, the residual, drive_ticks and
\* the position do not change, no seek and no get_track is issued, and
\* control stays in the loop until it is left for the check or by an
\* exception.
C19_RetryFrame ==
    /\ [][Issues("write_track")
            => /\ pc = "write"
               /\ last_op' = [op |-> "write_track", flux_list |-> flux_list,
                              terminate_at_index |->
                                  track.flux.terminate_at_index]]_vars
    /\ [][InRetryLoop
            => /\ UNCHANGED <<flux_list, flux, track, factor, rem, drive_ticks,
                              cyl, side, got_tracks, head, args>>
               /\ issued'.seek = issued.seek
               /\ pc' \in {"write", "read", "verify", "check", "raised"}]_vars
    /\ [](InRetryLoop
            => /\ flux = track.flux
               /\ Len(flux_list) = Len(flux.list)
               /\ track_ops.write_track
                    = IF pc = "write" THEN retry ELSE retry + 1)

\* C19 witness: the third write_track of a track has been issued, with a
\* sequence of several intervals and the flag set.
C19_Witness ==
    /\ pc = "read"
    /\ retry = 2
    /\ track_ops.write_track = 3
    /\ last_op.op = "write_track"
    /\ last_op.flux_list = flux_list
    /\ Len(flux_list) = 2
    /\ last_op.terminate_at_index

-----------------------------------------------------------------------------

\* the job has ended: write_from_image returned, main reported the command
\* failure, or an exception that main does not catch left the program
Terminal ==
    \/ pc \in {"done", "command_failed"}
    \/ pc = "raised" /\ exc # "CmdError"

\* the number of positions of the requested range
Positions ==
    IF args.scyl <= args.ecyl
    THEN (args.ecyl - args.scyl + 1) * args.nr_sides
    ELSE 0

\* a track has been fetched and is being processed
TrackStarted ==
    /\ track # None
    /\ pc \in {"seek", "convert", "convert_loop", "write", "read", "verify"}

\* the track has reached done-no-verify or done-verified, or has failed
TrackEnded ==
    \/ pc = "check"
    \/ exc # "none"

\* C20: with every call returning, the job eventually ends, normally or by
\* a fatal abort; every track that is started eventually is done or has
\* failed; and at no time have more write_track calls been issued than 3
\* times the number of requested positions.
C20_Terminates ==
    /\ <>Terminal
    /\ TrackStarted ~> TrackEnded
    /\ (pc = "check") ~> (pc \in {"get_track", "summary"} \/ exc = "Fatal")
    /\ [](issued.write_track <= 3 * Positions)
    /\ [][Terminal => UNCHANGED vars]_vars

\* C20 witness: a job of four positions has ended normally after ten
\* write_track calls.
C20_Witness ==
    /\ pc = "done"
    /\ Positions = 4
    /\ issued.write_track = 10
    /\ completed = 4

====
